---------------------------- MODULE Spec2Model ----------------------------
(***************************************************************************)
(* carla-multiplayer: the frame relay pipeline of sensor.py (capture       *)
(* callback, encode worker, send worker, two bounded queues) and the       *)
(* gamepad adapter with its fixed-rate publisher of controller.py.         *)
(*                                                                         *)
(* Python's queue.Queue makes put_nowait, get_nowait and get atomic (one   *)
(* mutex), so each queue operation is one step; the steps of the threads   *)
(* interleave freely.                                                      *)
(***************************************************************************)
EXTENDS Integers, Sequences, FiniteSets, TLC

\* ------------------------------------------------------------------ bounds
\* queue_size is drawn from 1..MaxN
MaxN == 2
\* the frame source delivers the frames 1..MaxFrames
MaxFrames == 4
\* the looper runs at most MaxTicks ticks
MaxTicks == 3

\* ------------------------------------------------------- program constants
\* _QUEUE_SIZE, the capacity the entry points give the Sender
SenderQueueSize == 2

VARIABLES
    \* ---- sensor.py : Sensor
    queue_size,      \* self._queue_size
    carla_images,    \* self._carla_images  (Q1)
    webp_bytes,      \* self._webp_bytes    (Q2)
    stop_event,      \* Threader._stop_event
    thr_pc,          \* lifecycle: "new","listening","running","stopping","joined","stopped"
    listening,       \* the frame source has the callback registered
    nextFrame,       \* the next frame the source delivers
    cb_pc,           \* capture callback: "idle","check","put","get"
    cb_image,        \* its argument image (<<>> outside an invocation)
    enc_pc,          \* encode worker: "new","loop","get","encode","check","put","evict","done"
    enc_image,       \* its local carla_image (<<>> when unset)
    enc_webp,        \* its local webp_bytes (<<>> when unset)
    snd_pc,          \* send worker: "new","loop","get","send","done"
    snd_webp,        \* its local webp_bytes (<<>> when unset)
    send_queue,      \* the Sender's outgoing queue
    \* ---- history
    pushedLog,       \* frames the callback inserted into Q1, in order
    q1Gets,          \* TRUE once the encode worker has taken an item from Q1
    encodedLog,      \* frames encoded, in order
    handedLog,       \* payloads passed to send_datagram, in order
    cbPuts,          \* put_nowait attempts of the current callback invocation
    encPuts,         \* put_nowait attempts of the current payload
    droppedLog,      \* payloads whose hand-over to the Sender raised Full
    stopMark,        \* <<>>, or <<the counts when the stop flag was raised>>
    \* ---- controller.py : ControllerEventHandler, _GamepadController
    axis_data,       \* handler._axis_data: axis -> <<>> (None) or <<hundredths>>
    button_data,     \* handler._button_data: button -> BOOLEAN
    hat_data,        \* handler._hat_data: hat -> <<x, y>>
    reverse,         \* _GamepadController._reverse
    last_controller_state,  \* _GamepadController._last_controller_state
    cb_callable,     \* whether _GamepadController._callback is callable
    \* ---- controller.py : GamepadController (the fixed-rate publisher)
    controller_state,\* GamepadController._controller_state: <<>> (None) or <<state>>
    looper_pc,       \* the looper thread: "idle", "checked" (inside _work), "crashed"
    \* ---- history
    ev_result,       \* outcome of the last handle_event
    ev_seq,          \* flips at every recognised event
    tick_result,     \* outcome of the last tick
    handed,          \* the last datagram passed to send_datagram by a tick
    ticksDone,       \* ticks completed
    handedCount,     \* send_datagram calls made by ticks
    \* ---- controller.py : the pure functions, applied to drawn inputs
    dz_x,            \* a steer axis sample, in hundredths
    dz_steer,        \* <<>>, or <<the steer derived from dz_x>>
    rt_state,        \* a ControllerState
    rt_wire,         \* <<>>, or <<serialize_controller_state(rt_state)>>
    rt_back          \* <<>>, or <<deserialize_controller_state of rt_wire>>

relayVars == <<queue_size, carla_images, webp_bytes, stop_event, thr_pc,
               listening, nextFrame, cb_pc, cb_image, enc_pc, enc_image,
               enc_webp, snd_pc, snd_webp, pushedLog, q1Gets, encodedLog,
               handedLog, cbPuts, encPuts, droppedLog, stopMark>>

adapterVars == <<axis_data, button_data, hat_data, reverse,
                 last_controller_state, cb_callable, controller_state,
                 ev_result, ev_seq>>

tickVars == <<looper_pc, tick_result, handed, ticksDone, handedCount>>

ctlVars == <<adapterVars, tickVars>>

pureVars == <<dz_x, dz_steer, rt_state, rt_wire, rt_back>>

vars == <<relayVars, send_queue, ctlVars, pureVars>>

\* ----------------------------------------------------------------- helpers
Frames == 1..MaxFrames

\* _carla_image_to_webp_bytes: one payload per image, a value of another type
Encode(image) == [webp_of |-> image]

\* queue.Queue(maxsize): put_nowait raises Full iff qsize() >= maxsize
QFull(q) == Len(q) >= queue_size
\* queue.Queue.put_nowait, when it does not raise: append at the tail
QPut(q, x) == Append(q, x)
\* queue.Queue.get / get_nowait, when it does not raise: the item at the head
QHead(q) == Head(q)
QRest(q) == Tail(q)

\* the threads _create_threads declares
Threads == {"enc", "snd"}

ThreadDone(t) == IF t = "enc" THEN enc_pc = "done" ELSE snd_pc = "done"

\* ------------------------------------------------------------------- Init
RelayFields ==
    /\ carla_images = <<>>
    /\ webp_bytes = <<>>
    /\ stop_event = FALSE
    /\ thr_pc = "new"
    /\ listening = FALSE
    /\ nextFrame = 1
    /\ cb_pc = "idle"
    /\ cb_image = <<>>
    /\ enc_pc = "new"
    /\ enc_image = <<>>
    /\ enc_webp = <<>>
    /\ snd_pc = "new"
    /\ snd_webp = <<>>
    /\ send_queue = <<>>
    /\ pushedLog = <<>>
    /\ q1Gets = FALSE
    /\ encodedLog = <<>>
    /\ handedLog = <<>>
    /\ cbPuts = 0
    /\ encPuts = 0
    /\ droppedLog = <<>>
    /\ stopMark = <<>>

SensorInit ==
    /\ queue_size \in 1..MaxN
    /\ RelayFields

\* ------------------------------------------------- Threader: start / stop
\* start(): _before_start subscribes the callback to the frame source ...
BeforeStart ==
    /\ thr_pc = "new"
    /\ thr_pc' = "listening"
    /\ listening' = TRUE
    /\ UNCHANGED <<queue_size, carla_images, webp_bytes, stop_event, nextFrame,
                   cb_pc, cb_image, enc_pc, enc_image, enc_webp, snd_pc,
                   snd_webp, send_queue, pushedLog, q1Gets, encodedLog,
                   handedLog, cbPuts, encPuts,
                   droppedLog, stopMark, ctlVars, pureVars>>

\* ... then every declared worker thread is started
LaunchThreads ==
    /\ thr_pc = "listening"
    /\ thr_pc' = "running"
    /\ enc_pc' = IF "enc" \in Threads THEN "loop" ELSE enc_pc
    /\ snd_pc' = IF "snd" \in Threads THEN "loop" ELSE snd_pc
    /\ UNCHANGED <<queue_size, carla_images, webp_bytes, stop_event, listening,
                   nextFrame, cb_pc, cb_image, enc_image, enc_webp, snd_webp,
                   send_queue, pushedLog, q1Gets, encodedLog, handedLog,
                   cbPuts, encPuts,
                   droppedLog, stopMark, ctlVars, pureVars>>

\* stop(): raise the shared cancellation flag ...
StopRaise ==
    /\ thr_pc = "running"
    /\ thr_pc' = "stopping"
    /\ stop_event' = TRUE
    /\ stopMark' = <<[encoded |-> Len(encodedLog), handed |-> Len(handedLog),
                      frame |-> nextFrame]>>
    /\ UNCHANGED <<queue_size, carla_images, webp_bytes, listening, nextFrame,
                   cb_pc, cb_image, enc_pc, enc_image, enc_webp, snd_pc,
                   snd_webp, send_queue, pushedLog, q1Gets, encodedLog,
                   handedLog, cbPuts, encPuts,
                   droppedLog, ctlVars, pureVars>>

StopJoinNoWait ==
    /\ thr_pc = "stopping"
    /\ thr_pc' = "joined"
    /\ UNCHANGED <<queue_size, carla_images, webp_bytes, stop_event, listening,
                   nextFrame, cb_pc, cb_image, enc_pc, enc_image, enc_webp,
                   snd_pc, snd_webp, send_queue, pushedLog, q1Gets,
                   encodedLog, handedLog, cbPuts, encPuts,
                   droppedLog, stopMark, ctlVars, pureVars>>

\* ... join every worker thread ...
StopJoin ==
    /\ thr_pc = "stopping"
    /\ \A t \in Threads : ThreadDone(t)
    /\ thr_pc' = "joined"
    /\ UNCHANGED <<queue_size, carla_images, webp_bytes, stop_event, listening,
                   nextFrame, cb_pc, cb_image, enc_pc, enc_image, enc_webp,
                   snd_pc, snd_webp, send_queue, pushedLog, q1Gets,
                   encodedLog, handedLog, cbPuts, encPuts,
                   droppedLog, stopMark, ctlVars, pureVars>>

\* ... then _after_stop: self._sensor.stop(); stop() returns.  The frame
\* source is an external collaborator: whether deliveries it has already
\* scheduled still arrive afterwards is its choice.
AfterStop ==
    /\ thr_pc = "joined"
    /\ thr_pc' = "stopped"
    /\ \E b \in BOOLEAN : listening' = b
    /\ UNCHANGED <<queue_size, carla_images, webp_bytes, stop_event, nextFrame,
                   cb_pc, cb_image, enc_pc, enc_image, enc_webp, snd_pc,
                   snd_webp, send_queue, pushedLog, q1Gets, encodedLog,
                   handedLog, cbPuts, encPuts,
                   droppedLog, stopMark, ctlVars, pureVars>>

\* ------------------------------ capture callback (the frame source's thread)
\* the frame source invokes _add_image_to_carla_images_queue(image)
CbInvoke ==
    /\ listening
    /\ cb_pc = "idle"
    /\ nextFrame <= MaxFrames
    /\ cb_image' = <<nextFrame>>
    /\ nextFrame' = nextFrame + 1
    /\ cb_pc' = "check"
    /\ cbPuts' = 0
    /\ UNCHANGED <<queue_size, carla_images, webp_bytes, stop_event, thr_pc,
                   listening, enc_pc, enc_image, enc_webp, snd_pc, snd_webp,
                   send_queue, pushedLog, q1Gets, encodedLog, handedLog,
                   encPuts,
                   droppedLog, stopMark, ctlVars, pureVars>>

\* while not self._stop_event.is_set():
CbCheckIgnoreStop ==
    /\ cb_pc = "check"
    /\ cb_pc' = "put" /\ cb_image' = cb_image
    /\ UNCHANGED <<queue_size, carla_images, webp_bytes, stop_event, thr_pc,
                   listening, nextFrame, enc_pc, enc_image, enc_webp, snd_pc,
                   snd_webp, send_queue, pushedLog, q1Gets, encodedLog,
                   handedLog, cbPuts, encPuts,
                   droppedLog, stopMark, ctlVars, pureVars>>

CbCheck ==
    /\ cb_pc = "check"
    /\ IF stop_event
         THEN cb_pc' = "idle" /\ cb_image' = <<>>
         ELSE cb_pc' = "put" /\ cb_image' = cb_image
    /\ UNCHANGED <<queue_size, carla_images, webp_bytes, stop_event, thr_pc,
                   listening, nextFrame, enc_pc, enc_image, enc_webp, snd_pc,
                   snd_webp, send_queue, pushedLog, q1Gets, encodedLog,
                   handedLog, cbPuts, encPuts,
                   droppedLog, stopMark, ctlVars, pureVars>>

\* self._carla_images.put_nowait(image); break  /  except Full
CbPutDropNewest ==
    /\ cb_pc = "put"
    /\ cbPuts' = cbPuts + 1
    /\ IF QFull(carla_images)
         THEN /\ cb_pc' = "idle"
              /\ cb_image' = <<>>
              /\ UNCHANGED <<carla_images, pushedLog>>
         ELSE /\ carla_images' = QPut(carla_images, cb_image[1])
              /\ pushedLog' = Append(pushedLog, cb_image[1])
              /\ cb_pc' = "idle"
              /\ cb_image' = <<>>
    /\ UNCHANGED <<queue_size, webp_bytes, stop_event, thr_pc, listening,
                   nextFrame, enc_pc, enc_image, enc_webp, snd_pc, snd_webp,
                   send_queue, q1Gets, encodedLog, handedLog, encPuts,
                   droppedLog, stopMark, ctlVars, pureVars>>

CbPut ==
    /\ cb_pc = "put"
    /\ cbPuts' = cbPuts + 1
    /\ IF QFull(carla_images)
         THEN /\ cb_pc' = "get"
              /\ UNCHANGED <<carla_images, cb_image, pushedLog>>
         ELSE /\ carla_images' = QPut(carla_images, cb_image[1])
              /\ pushedLog' = Append(pushedLog, cb_image[1])
              /\ cb_pc' = "idle"
              /\ cb_image' = <<>>
    /\ UNCHANGED <<queue_size, webp_bytes, stop_event, thr_pc, listening,
                   nextFrame, enc_pc, enc_image, enc_webp, snd_pc, snd_webp,
                   send_queue, q1Gets, encodedLog, handedLog, encPuts,
                   droppedLog, stopMark, ctlVars, pureVars>>

\* self._carla_images.get_nowait()  /  except Empty: pass
CbGetNewest ==
    /\ cb_pc = "get"
    /\ carla_images' = IF carla_images = <<>> THEN carla_images
                       ELSE SubSeq(carla_images, 1, Len(carla_images) - 1)
    /\ cb_pc' = "check"
    /\ UNCHANGED <<queue_size, webp_bytes, stop_event, thr_pc, listening,
                   nextFrame, cb_image, enc_pc, enc_image, enc_webp, snd_pc,
                   snd_webp, send_queue, pushedLog, q1Gets, encodedLog,
                   handedLog, cbPuts, encPuts,
                   droppedLog, stopMark, ctlVars, pureVars>>

CbGet ==
    /\ cb_pc = "get"
    /\ carla_images' = IF carla_images = <<>> THEN carla_images
                                              ELSE QRest(carla_images)
    /\ cb_pc' = "check"
    /\ UNCHANGED <<queue_size, webp_bytes, stop_event, thr_pc, listening,
                   nextFrame, cb_image, enc_pc, enc_image, enc_webp, snd_pc,
                   snd_webp, send_queue, pushedLog, q1Gets, encodedLog,
                   handedLog, cbPuts, encPuts,
                   droppedLog, stopMark, ctlVars, pureVars>>

\* ------------------------------------------------------------ encode worker
\* _fill_webp_bytes_queue_from_carla_images_queue: while not stop_event.is_set()
EncLoopIgnoreStop ==
    /\ enc_pc = "loop"
    /\ enc_pc' = "get"
    /\ UNCHANGED <<queue_size, carla_images, webp_bytes, stop_event, thr_pc,
                   listening, nextFrame, cb_pc, cb_image, enc_image, enc_webp,
                   snd_pc, snd_webp, send_queue, pushedLog, q1Gets,
                   encodedLog, handedLog, cbPuts, encPuts,
                   droppedLog, stopMark, ctlVars, pureVars>>

EncLoop ==
    /\ enc_pc = "loop"
    /\ enc_pc' = IF stop_event THEN "done" ELSE "get"
    /\ UNCHANGED <<queue_size, carla_images, webp_bytes, stop_event, thr_pc,
                   listening, nextFrame, cb_pc, cb_image, enc_image, enc_webp,
                   snd_pc, snd_webp, send_queue, pushedLog, q1Gets,
                   encodedLog, handedLog, cbPuts, encPuts,
                   droppedLog, stopMark, ctlVars, pureVars>>

\* carla_image = self._carla_images.get(timeout=1)  /  except Empty: continue
\* (get raises Empty only when the queue is still empty as the timeout ends)
EncGetNewest ==
    /\ enc_pc = "get"
    /\ IF carla_images = <<>>
         THEN /\ enc_pc' = "loop"
              /\ UNCHANGED <<carla_images, enc_image, q1Gets>>
         ELSE /\ enc_image' = <<carla_images[Len(carla_images)]>>
              /\ carla_images' = SubSeq(carla_images, 1, Len(carla_images) - 1)
              /\ q1Gets' = TRUE
              /\ enc_pc' = "encode"
    /\ UNCHANGED <<queue_size, webp_bytes, stop_event, thr_pc, listening,
                   nextFrame, cb_pc, cb_image, enc_webp, snd_pc, snd_webp,
                   send_queue, pushedLog, encodedLog, handedLog, cbPuts,
                   encPuts,
                   droppedLog, stopMark, ctlVars, pureVars>>

EncGet ==
    /\ enc_pc = "get"
    /\ IF carla_images = <<>>
         THEN /\ enc_pc' = "loop"
              /\ UNCHANGED <<carla_images, enc_image, q1Gets>>
         ELSE /\ enc_image' = <<QHead(carla_images)>>
              /\ carla_images' = QRest(carla_images)
              /\ q1Gets' = TRUE
              /\ enc_pc' = "encode"
    /\ UNCHANGED <<queue_size, webp_bytes, stop_event, thr_pc, listening,
                   nextFrame, cb_pc, cb_image, enc_webp, snd_pc, snd_webp,
                   send_queue, pushedLog, encodedLog, handedLog, cbPuts,
                   encPuts,
                   droppedLog, stopMark, ctlVars, pureVars>>

\* webp_bytes = _carla_image_to_webp_bytes(carla_image)
EncEncode ==
    /\ enc_pc = "encode"
    /\ enc_webp' = <<Encode(enc_image[1])>>
    /\ encodedLog' = Append(encodedLog, enc_image[1])
    /\ enc_image' = <<>>
    /\ encPuts' = 0
    /\ enc_pc' = "check"
    /\ UNCHANGED <<queue_size, carla_images, webp_bytes, stop_event, thr_pc,
                   listening, nextFrame, cb_pc, cb_image, snd_pc, snd_webp,
                   send_queue, pushedLog, q1Gets, handedLog, cbPuts,
                   droppedLog, stopMark, ctlVars, pureVars>>

\* inner loop: while not self._stop_event.is_set():
EncCheck ==
    /\ enc_pc = "check"
    /\ IF stop_event
         THEN enc_pc' = "loop" /\ enc_webp' = <<>>
         ELSE enc_pc' = "put" /\ enc_webp' = enc_webp
    /\ UNCHANGED <<queue_size, carla_images, webp_bytes, stop_event, thr_pc,
                   listening, nextFrame, cb_pc, cb_image, enc_image, snd_pc,
                   snd_webp, send_queue, pushedLog, q1Gets, encodedLog,
                   handedLog, cbPuts, encPuts,
                   droppedLog, stopMark, ctlVars, pureVars>>

\* self._webp_bytes.put_nowait(webp_bytes); break  /  except Full
EncPutUnbounded ==
    /\ enc_pc = "put"
    /\ encPuts' = encPuts + 1
    /\ webp_bytes' = QPut(webp_bytes, enc_webp[1])
    /\ enc_pc' = "loop"
    /\ enc_webp' = <<>>
    /\ UNCHANGED <<queue_size, carla_images, stop_event, thr_pc, listening,
                   nextFrame, cb_pc, cb_image, enc_image, snd_pc, snd_webp,
                   send_queue, pushedLog, q1Gets, encodedLog, handedLog,
                   cbPuts,
                   droppedLog, stopMark, ctlVars, pureVars>>

EncPut ==
    /\ enc_pc = "put"
    /\ encPuts' = encPuts + 1
    /\ IF QFull(webp_bytes)
         THEN /\ enc_pc' = "evict"
              /\ UNCHANGED <<webp_bytes, enc_webp>>
         ELSE /\ webp_bytes' = QPut(webp_bytes, enc_webp[1])
              /\ enc_pc' = "loop"
              /\ enc_webp' = <<>>
    /\ UNCHANGED <<queue_size, carla_images, stop_event, thr_pc, listening,
                   nextFrame, cb_pc, cb_image, enc_image, snd_pc, snd_webp,
                   send_queue, pushedLog, q1Gets, encodedLog, handedLog,
                   cbPuts,
                   droppedLog, stopMark, ctlVars, pureVars>>

\* self._webp_bytes.get_nowait()  /  except Empty: pass
EncEvictNothing ==
    /\ enc_pc = "evict"
    /\ enc_pc' = "check"
    /\ UNCHANGED <<queue_size, carla_images, webp_bytes, stop_event, thr_pc,
                   listening, nextFrame, cb_pc, cb_image, enc_image, enc_webp,
                   snd_pc, snd_webp, send_queue, pushedLog, q1Gets,
                   encodedLog, handedLog, cbPuts, encPuts,
                   droppedLog, stopMark, ctlVars, pureVars>>

EncEvict ==
    /\ enc_pc = "evict"
    /\ webp_bytes' = IF webp_bytes = <<>> THEN webp_bytes ELSE QRest(webp_bytes)
    /\ enc_pc' = "check"
    /\ UNCHANGED <<queue_size, carla_images, stop_event, thr_pc, listening,
                   nextFrame, cb_pc, cb_image, enc_image, enc_webp, snd_pc,
                   snd_webp, send_queue, pushedLog, q1Gets, encodedLog,
                   handedLog, cbPuts, encPuts,
                   droppedLog, stopMark, ctlVars, pureVars>>

\* -------------------------------------------------------------- send worker
\* _send_datagrams_from_webp_bytes_queue: while not stop_event.is_set()
SndLoopIgnoreStop ==
    /\ snd_pc = "loop"
    /\ snd_pc' = "get"
    /\ UNCHANGED <<queue_size, carla_images, webp_bytes, stop_event, thr_pc,
                   listening, nextFrame, cb_pc, cb_image, enc_pc, enc_image,
                   enc_webp, snd_webp, send_queue, pushedLog, q1Gets,
                   encodedLog, handedLog, cbPuts, encPuts,
                   droppedLog, stopMark, ctlVars, pureVars>>

SndLoop ==
    /\ snd_pc = "loop"
    /\ snd_pc' = IF stop_event THEN "done" ELSE "get"
    /\ UNCHANGED <<queue_size, carla_images, webp_bytes, stop_event, thr_pc,
                   listening, nextFrame, cb_pc, cb_image, enc_pc, enc_image,
                   enc_webp, snd_webp, send_queue, pushedLog, q1Gets,
                   encodedLog, handedLog, cbPuts, encPuts,
                   droppedLog, stopMark, ctlVars, pureVars>>

\* webp_bytes = self._webp_bytes.get(timeout=1)  /  except Empty: continue
SndGet ==
    /\ snd_pc = "get"
    /\ IF webp_bytes = <<>>
         THEN /\ snd_pc' = "loop"
              /\ UNCHANGED <<webp_bytes, snd_webp>>
         ELSE /\ snd_webp' = <<QHead(webp_bytes)>>
              /\ webp_bytes' = QRest(webp_bytes)
              /\ snd_pc' = "send"
    /\ UNCHANGED <<queue_size, carla_images, stop_event, thr_pc, listening,
                   nextFrame, cb_pc, cb_image, enc_pc, enc_image, enc_webp,
                   send_queue, pushedLog, q1Gets, encodedLog, handedLog,
                   cbPuts, encPuts,
                   droppedLog, stopMark, ctlVars, pureVars>>

\* Sender.send_datagram(data, address): a non-blocking insert into the
\* Sender's bounded outgoing queue, which raises Full when that queue is full.
\* The result: whether Full was raised, and the queue afterwards.
SendDatagram(q, data) ==
    IF Len(q) >= SenderQueueSize
      THEN [raised |-> TRUE, queue |-> q]
      ELSE [raised |-> FALSE, queue |-> Append(q, data)]

\* self._sender.send_datagram(webp_bytes, ...)  /  except Full: pass
SndSendUncaught ==
    /\ snd_pc = "send"
    /\ handedLog' = Append(handedLog, snd_webp[1])
    /\ send_queue' = SendDatagram(send_queue, snd_webp[1]).queue
    /\ droppedLog' = IF SendDatagram(send_queue, snd_webp[1]).raised
                       THEN Append(droppedLog, snd_webp[1])
                       ELSE droppedLog
    /\ snd_webp' = <<>>
    /\ snd_pc' = IF SendDatagram(send_queue, snd_webp[1]).raised
                   THEN "done"
                   ELSE "loop"
    /\ UNCHANGED <<queue_size, carla_images, webp_bytes, stop_event, thr_pc,
                   listening, nextFrame, cb_pc, cb_image, enc_pc, enc_image,
                   enc_webp, pushedLog, q1Gets, encodedLog, cbPuts, encPuts,
                   stopMark, ctlVars, pureVars>>

SndSend ==
    /\ snd_pc = "send"
    /\ handedLog' = Append(handedLog, snd_webp[1])
    /\ send_queue' = SendDatagram(send_queue, snd_webp[1]).queue
    /\ droppedLog' = IF SendDatagram(send_queue, snd_webp[1]).raised
                       THEN Append(droppedLog, snd_webp[1])
                       ELSE droppedLog
    /\ snd_webp' = <<>>
    /\ snd_pc' = "loop"
    /\ UNCHANGED <<queue_size, carla_images, webp_bytes, stop_event, thr_pc,
                   listening, nextFrame, cb_pc, cb_image, enc_pc, enc_image,
                   enc_webp, pushedLog, q1Gets, encodedLog, cbPuts, encPuts,
                   stopMark, ctlVars, pureVars>>

\* the Sender's dispatch worker writes the oldest queued datagram to the socket
SenderDispatch ==
    /\ send_queue # <<>>
    /\ send_queue' = Tail(send_queue)
    /\ UNCHANGED <<queue_size, carla_images, webp_bytes, stop_event, thr_pc,
                   listening, nextFrame, cb_pc, cb_image, enc_pc, enc_image,
                   enc_webp, snd_pc, snd_webp, pushedLog, q1Gets, encodedLog,
                   handedLog, cbPuts, encPuts,
                   droppedLog, stopMark, ctlVars, pureVars>>

\* ================================================ controller.py: the adapter
\* the device the code assumes: it reads axis 5 and button 12
Axes == 0..5
Buttons == 0..12
Hats == {0}

\* event.value of an axis motion, in thousandths.  None of the values is a
\* tie between two hundredths, and each rounds to an even number of
\* hundredths on the throttle and brake axes (Python rounds a tie by the
\* float's binary expansion, which no integer rule reproduces).
SteerValues == {-170, 160, 164, 170}
BrakeValues == {-1000, 0}
ThrottleValues == {1000}

AxisEvents ==
    [type : {"JOYAXISMOTION"}, axis : {0}, value : SteerValues]
    \cup [type : {"JOYAXISMOTION"}, axis : {4}, value : BrakeValues]
    \cup [type : {"JOYAXISMOTION"}, axis : {5}, value : ThrottleValues]
ButtonEvents ==
    [type : {"JOYBUTTONDOWN", "JOYBUTTONUP"}, button : {0, 6, 11, 12}]
HatEvents ==
    [type : {"JOYHATMOTION"}, hat : Hats, value : {<<0, 0>>, <<0, 1>>}]
OtherEvents == [type : {"KEYDOWN"}]

\* the events the adapter is driven with
Events == AxisEvents \cup ButtonEvents \cup HatEvents \cup OtherEvents

\* the events the fixed-rate publisher is driven with
TickEvents ==
    [type : {"JOYAXISMOTION"}, axis : {0}, value : {160, 170}]
    \cup [type : {"JOYBUTTONDOWN", "JOYBUTTONUP"}, button : {11, 12}]
    \cup [type : {"JOYHATMOTION"}, hat : Hats, value : {<<0, 1>>}]
    \cup OtherEvents

\* round(x, 2) of a value in thousandths: the nearest hundredth
Round2(v) == IF v >= 0 THEN (v + 5) \div 10 ELSE -((5 - v) \div 10)

\* round((axis + 1.0) / 2.0, 2), in hundredths, of an even number of hundredths
HalfRange(a) == (a + 100) \div 2

handle_steer_deadzoneStrict(steer) ==
    IF -16 < steer /\ steer < 16 THEN 0 ELSE steer

\* handle_steer_deadzone
handle_steer_deadzone(steer) ==
    IF -16 <= steer /\ steer <= 16 THEN 0 ELSE steer

ControllerState(throttle, brake, steer, hand_brake, rev, reset) ==
    [throttle |-> throttle, brake |-> brake, steer |-> steer,
     hand_brake |-> hand_brake, reverse |-> rev, reset |-> reset]

\* ControllerState == (NamedTuple equality): all six fields, or both None
SameStateButSteer(a, b) ==
    IF a = <<>> \/ b = <<>> THEN a = b
    ELSE /\ a[1].throttle = b[1].throttle
         /\ a[1].brake = b[1].brake
         /\ a[1].hand_brake = b[1].hand_brake
         /\ a[1].reverse = b[1].reverse
         /\ a[1].reset = b[1].reset

SameStateButReset(a, b) ==
    IF a = <<>> \/ b = <<>> THEN a = b
    ELSE /\ a[1].throttle = b[1].throttle
         /\ a[1].brake = b[1].brake
         /\ a[1].steer = b[1].steer
         /\ a[1].hand_brake = b[1].hand_brake
         /\ a[1].reverse = b[1].reverse

SameState(a, b) ==
    IF a = <<>> \/ b = <<>> THEN a = b
    ELSE /\ a[1].throttle = b[1].throttle
         /\ a[1].brake = b[1].brake
         /\ a[1].steer = b[1].steer
         /\ a[1].hand_brake = b[1].hand_brake
         /\ a[1].reverse = b[1].reverse
         /\ a[1].reset = b[1].reset

\* json.dumps of a Python bool, and json.loads of it
JsonBool(b) == IF b THEN "true" ELSE "false"
JsonParseBool(t) == t = "true"

\* json.dumps of a float given in hundredths: sign, integer part and two
\* decimals of its shortest repr; json.loads reads the same float back
JsonNumberNoSign(n) ==
    LET m == IF n < 0 THEN -n ELSE n
    IN  [neg |-> FALSE, whole |-> m \div 100, frac |-> m % 100]

JsonNumber(n) ==
    LET m == IF n < 0 THEN -n ELSE n
    IN  [neg |-> n < 0, whole |-> m \div 100, frac |-> m % 100]

JsonParseNumber(t) ==
    LET m == t.whole * 100 + t.frac
    IN  IF t.neg THEN -m ELSE m

\* serialize_controller_state: the six fields as a flat key/value record
serialize_controller_state(cs) ==
    << <<"throttle", JsonNumber(cs.throttle)>>,
       <<"brake", JsonNumber(cs.brake)>>,
       <<"steer", JsonNumber(cs.steer)>>,
       <<"hand_brake", JsonBool(cs.hand_brake)>>,
       <<"reverse", JsonBool(cs.reverse)>>, <<"reset", JsonBool(cs.reset)>> >>

\* json.loads(...)[key]: the value the record gives for a key
JsonField(data, key) ==
    data[CHOOSE i \in 1..Len(data) : data[i][1] = key][2]

\* deserialize_controller_state: ControllerState(**json.loads(data))
deserialize_controller_state(data) ==
    ControllerState(JsonParseNumber(JsonField(data, "throttle")),
                    JsonParseNumber(JsonField(data, "brake")),
                    JsonParseNumber(JsonField(data, "steer")),
                    JsonParseBool(JsonField(data, "hand_brake")),
                    JsonParseBool(JsonField(data, "reverse")),
                    JsonParseBool(JsonField(data, "reset")))

\* ControllerEventHandler.handle_event: the update of the raw sample
\* (recognised is FALSE for the early return of the else branch)
RawUpdate(e) ==
    CASE e.type = "JOYAXISMOTION" ->
           [recognised |-> TRUE,
            axis |-> [axis_data EXCEPT ![e.axis] = <<Round2(e.value)>>],
            button |-> button_data, hat |-> hat_data]
      [] e.type = "JOYBUTTONDOWN" ->
           [recognised |-> TRUE, axis |-> axis_data,
            button |-> [button_data EXCEPT ![e.button] = TRUE],
            hat |-> hat_data]
      [] e.type = "JOYBUTTONUP" ->
           [recognised |-> TRUE, axis |-> axis_data,
            button |-> [button_data EXCEPT ![e.button] = FALSE],
            hat |-> hat_data]
      [] e.type = "JOYHATMOTION" ->
           [recognised |-> TRUE, axis |-> axis_data, button |-> button_data,
            hat |-> [hat_data EXCEPT ![e.hat] = e.value]]
      [] OTHER ->
           [recognised |-> FALSE, axis |-> axis_data, button |-> button_data,
            hat |-> hat_data]

\* the reverse latch of _handle_callback
NextReverseReverseFirst(button, rev) ==
    IF button[12] THEN TRUE
    ELSE IF button[11] THEN FALSE
    ELSE rev

NextReverse(button, rev) ==
    IF button[11] THEN FALSE
    ELSE IF button[12] THEN TRUE
    ELSE rev

\* _GamepadController._handle_callback: the latch is written before the
\* callable test, which raises; otherwise the derived state is returned
HandleCallback(axis, button, rev, is_callable) ==
    LET throttle == IF axis[5] # <<>> THEN HalfRange(axis[5][1]) ELSE 0
        brake == IF axis[4] # <<>> THEN HalfRange(axis[4][1]) ELSE 0
        steer == IF axis[0] # <<>> THEN axis[0][1] ELSE 0
        r == NextReverse(button, rev)
    IN  [raised |-> ~is_callable,
         reverse |-> r,
         state |-> ControllerState(throttle, brake,
                                   handle_steer_deadzone(steer),
                                   button[0], r, button[6])]

\* GamepadController._set_controller_state: the value held afterwards
SetControllerStateOnce(held, cs) == IF held = <<>> THEN <<cs>> ELSE held

SetControllerState(held, cs) == <<cs>>

\* handle_event(event): handler update, _callback_wrapper, downstream callback
HandleEventSwallows(e) ==
    LET raw == RawUpdate(e)
        hc == HandleCallback(raw.axis, raw.button, reverse, cb_callable)
    IN  /\ axis_data' = raw.axis
        /\ button_data' = raw.button
        /\ hat_data' = raw.hat
        /\ IF ~raw.recognised
             THEN /\ ev_result' = "ignored"
                  /\ UNCHANGED <<reverse, last_controller_state,
                                 controller_state, ev_seq>>
             ELSE /\ ev_seq' = 1 - ev_seq
                  /\ reverse' = hc.reverse
                  /\ IF hc.raised
                       THEN /\ ev_result' = "deduped"
                            /\ UNCHANGED <<last_controller_state,
                                           controller_state>>
                       ELSE IF SameState(<<hc.state>>, last_controller_state)
                       THEN /\ ev_result' = "deduped"
                            /\ UNCHANGED <<last_controller_state,
                                           controller_state>>
                       ELSE /\ ev_result' = "emitted"
                            /\ controller_state' =
                                 SetControllerState(controller_state, hc.state)
                            /\ last_controller_state' = <<hc.state>>
        /\ UNCHANGED <<cb_callable, tickVars, send_queue, relayVars, pureVars>>

HandleEvent(e) ==
    LET raw == RawUpdate(e)
        hc == HandleCallback(raw.axis, raw.button, reverse, cb_callable)
    IN  /\ axis_data' = raw.axis
        /\ button_data' = raw.button
        /\ hat_data' = raw.hat
        /\ IF ~raw.recognised
             THEN /\ ev_result' = "ignored"
                  /\ UNCHANGED <<reverse, last_controller_state,
                                 controller_state, ev_seq>>
             ELSE /\ ev_seq' = 1 - ev_seq
                  /\ reverse' = hc.reverse
                  /\ IF hc.raised
                       THEN /\ ev_result' = "error"
                            /\ UNCHANGED <<last_controller_state,
                                           controller_state>>
                       ELSE IF SameState(<<hc.state>>, last_controller_state)
                       THEN /\ ev_result' = "deduped"
                            /\ UNCHANGED <<last_controller_state,
                                           controller_state>>
                       ELSE /\ ev_result' = "emitted"
                            /\ controller_state' =
                                 SetControllerState(controller_state, hc.state)
                            /\ last_controller_state' = <<hc.state>>
        /\ UNCHANGED <<cb_callable, tickVars, send_queue, relayVars, pureVars>>

\* =================================== controller.py: the fixed-rate publisher
\* _work: if self._controller_state is None: return
WorkCheckNoNoneTest ==
    /\ looper_pc = "idle"
    /\ ticksDone < MaxTicks
    /\ looper_pc' = "checked"
    /\ UNCHANGED <<tick_result, ticksDone, handed, handedCount, adapterVars,
                   send_queue, relayVars, pureVars>>

WorkCheck ==
    /\ looper_pc = "idle"
    /\ ticksDone < MaxTicks
    /\ IF controller_state = <<>>
         THEN /\ tick_result' = "noop"
              /\ ticksDone' = ticksDone + 1
              /\ looper_pc' = "idle"
         ELSE /\ looper_pc' = "checked"
              /\ UNCHANGED <<tick_result, ticksDone>>
    /\ UNCHANGED <<handed, handedCount, adapterVars, send_queue, relayVars, pureVars>>

\* _work: self._sender.send_datagram(serialize_controller_state(...)) inside
\* try / except Empty.  serialize_controller_state(None) raises
\* AttributeError; a Full raised by send_datagram is not an Empty, so it
\* leaves _work.  What the looper does with an exception that leaves _work
\* is outside this file: its thread ends, or it goes on ticking.
WorkSend ==
    /\ looper_pc = "checked"
    /\ ticksDone' = ticksDone + 1
    /\ IF controller_state = <<>>
         THEN /\ tick_result' = "AttributeError"
              /\ \E p \in {"idle", "crashed"} : looper_pc' = p
              /\ UNCHANGED <<handed, handedCount, send_queue>>
         ELSE LET data == serialize_controller_state(controller_state[1])
                  r == SendDatagram(send_queue, data)
              IN  /\ handed' = <<data>>
                  /\ handedCount' = handedCount + 1
                  /\ send_queue' = r.queue
                  /\ IF r.raised
                       THEN /\ tick_result' = "Full"
                            /\ \E p \in {"idle", "crashed"} : looper_pc' = p
                       ELSE /\ tick_result' = "sent"
                            /\ looper_pc' = "idle"
    /\ UNCHANGED <<adapterVars, relayVars, pureVars>>

\* the Sender's dispatch worker, in the controller's process
ControllerSenderDispatch ==
    /\ send_queue # <<>>
    /\ send_queue' = Tail(send_queue)
    /\ UNCHANGED <<ctlVars, relayVars, pureVars>>

\* ============================================ controller.py: pure functions
\* the steer axis in hundredths, and the ControllerState values drawn
SteerRange == -100..100

ControlStates ==
    [throttle : {0, 50, 100}, brake : {0, 50, 100},
     steer : {-100, -17, 0, 17, 100},
     hand_brake : BOOLEAN, reverse : BOOLEAN, reset : BOOLEAN]

\* before any input is drawn
PureIdle ==
    /\ dz_x = 0
    /\ dz_steer = <<>>
    /\ rt_state = ControllerState(0, 0, 0, FALSE, FALSE, FALSE)
    /\ rt_wire = <<>>
    /\ rt_back = <<>>

\* _handle_callback on a sample whose axis 0 reads dz_x: the derived steer
DeriveSteer ==
    /\ dz_steer = <<>>
    /\ dz_steer' =
         <<HandleCallback([axis_data EXCEPT ![0] = <<dz_x>>], button_data,
                          reverse, TRUE).state.steer>>
    /\ UNCHANGED <<dz_x, rt_state, rt_wire, rt_back, ctlVars, send_queue,
                   relayVars>>

\* serialize_controller_state(rt_state)
SerializeStep ==
    /\ rt_wire = <<>>
    /\ rt_wire' = <<serialize_controller_state(rt_state)>>
    /\ UNCHANGED <<dz_x, dz_steer, rt_state, rt_back, ctlVars, send_queue,
                   relayVars>>

\* deserialize_controller_state of the serialized record
DeserializeStep ==
    /\ rt_wire # <<>>
    /\ rt_back = <<>>
    /\ rt_back' = <<deserialize_controller_state(rt_wire[1])>>
    /\ UNCHANGED <<dz_x, dz_steer, rt_state, rt_wire, ctlVars, send_queue,
                   relayVars>>

\* state after construction of the adapter and the publisher
AdapterFields ==
    /\ axis_data = [i \in Axes |-> <<>>]
    /\ button_data = [i \in Buttons |-> FALSE]
    /\ hat_data = [i \in Hats |-> <<0, 0>>]
    /\ reverse = FALSE
    /\ last_controller_state = <<>>
    /\ controller_state = <<>>
    /\ ev_result = "none"
    /\ ev_seq = 0
    /\ looper_pc = "idle"
    /\ tick_result = "none"
    /\ handed = <<>>
    /\ ticksDone = 0
    /\ handedCount = 0

\* ------------------------------------------------------------ specification
CbStep == CbInvoke \/ CbCheck \/ CbPut \/ CbGet
EncStep == EncLoop \/ EncGet \/ EncEncode \/ EncCheck \/ EncPut \/ EncEvict
SndStep == SndLoop \/ SndGet \/ SndSend

Init ==
    /\ SensorInit
    /\ AdapterFields
    /\ cb_callable = TRUE
    /\ PureIdle

Next ==
    \/ BeforeStart \/ LaunchThreads \/ StopRaise \/ StopJoin \/ AfterStop
    \/ CbInvoke \/ CbCheck \/ CbPut \/ CbGet
    \/ EncLoop \/ EncGet \/ EncEncode \/ EncCheck \/ EncPut \/ EncEvict
    \/ SndLoop \/ SndGet \/ SndSend
    \/ SenderDispatch

Spec == Init /\ [][Next]_vars

\* the adapter alone, driven by device events; its callback target is the
\* caller's, callable or not
AdapterInit ==
    /\ queue_size = 1
    /\ RelayFields
    /\ AdapterFields
    /\ cb_callable \in BOOLEAN
    /\ PureIdle

AdapterNext == \E e \in Events : HandleEvent(e)

AdapterSpec == AdapterInit /\ [][AdapterNext]_vars

\* GamepadController: the adapter with _set_controller_state as its callback,
\* the looper thread and the Sender
PublisherInit ==
    /\ queue_size = 1
    /\ RelayFields
    /\ AdapterFields
    /\ cb_callable = TRUE
    /\ PureIdle

PublisherEvent == \E e \in TickEvents : HandleEvent(e)

PublisherNext ==
    \/ PublisherEvent
    \/ WorkCheck
    \/ WorkSend
    \/ ControllerSenderDispatch

PublisherSpec == PublisherInit /\ [][PublisherNext]_vars

\* handle_steer_deadzone as _handle_callback applies it, on every steer sample
DeadzoneInit ==
    /\ queue_size = 1
    /\ RelayFields
    /\ AdapterFields
    /\ cb_callable = TRUE
    /\ dz_x \in SteerRange
    /\ dz_steer = <<>>
    /\ rt_state = ControllerState(0, 0, 0, FALSE, FALSE, FALSE)
    /\ rt_wire = <<>>
    /\ rt_back = <<>>

DeadzoneSpec == DeadzoneInit /\ [][DeriveSteer]_vars

\* the wire record of a control state, written and read back
RoundTripInit ==
    /\ queue_size = 1
    /\ RelayFields
    /\ AdapterFields
    /\ cb_callable = TRUE
    /\ dz_x = 0
    /\ dz_steer = <<>>
    /\ rt_state \in ControlStates
    /\ rt_wire = <<>>
    /\ rt_back = <<>>

RoundTripNext == SerializeStep \/ DeserializeStep

RoundTripSpec == RoundTripInit /\ [][RoundTripNext]_vars

\* the operating system schedules every runnable thread again and again
FairSpec == Spec /\ WF_vars(EncStep) /\ WF_vars(SndStep)

\* ------------------------------------------------------- claims: frame relay
\* the last n items of s (all of s when it has no more than n)
LastN(s, n) == IF Len(s) <= n THEN s ELSE SubSeq(s, Len(s) - n + 1, Len(s))

\* the frames delivered to the capture callback so far, in delivery order
Delivered == [i \in 1..(nextFrame - 1) |-> i]

StrictlyIncreasing(s) == \A i, j \in 1..Len(s) : i < j => s[i] < s[j]

\* C1: the raw-frame queue Q1 and the encoded-payload queue Q2 each hold at
\* most N items in every reachable state, for every capacity N >= 1.
C1_QueuesBounded ==
    /\ Len(carla_images) <= queue_size
    /\ Len(webp_bytes) <= queue_size

\* both queues are at capacity while each producer is about to push again
C1_Witness ==
    /\ Len(carla_images) = queue_size
    /\ Len(webp_bytes) = queue_size
    /\ cb_pc = "put"
    /\ enc_pc = "put"

\* C2: after the capture callback has pushed more than N frames while no
\* consumer has taken anything and the pipeline is not cancelled, Q1 holds
\* exactly the last N delivered frames in push order.
C2_LastNRetained ==
    (/\ ~q1Gets
     /\ ~stop_event
     /\ cb_pc = "idle"
     /\ Len(Delivered) > queue_size)
    => carla_images = LastN(Delivered, queue_size)

\* F1, F2, F3 pushed into a capacity-2 queue with no consumer: [F2, F3]
C2_Witness ==
    /\ ~q1Gets
    /\ ~stop_event
    /\ cb_pc = "idle"
    /\ queue_size = 2
    /\ Len(Delivered) = 3
    /\ carla_images = <<2, 3>>

\* C3: after stop() has returned neither worker is running, and from then on
\* no frame is encoded and no payload is handed to the datagram publisher,
\* even if the frame source keeps invoking the capture callback.
C3_StopQuiesces ==
    /\ [](thr_pc = "stopped" => (enc_pc = "done" /\ snd_pc = "done"))
    /\ [][thr_pc = "stopped" =>
            (encodedLog' = encodedLog /\ handedLog' = handedLog)]_vars

\* stop() has returned, the source still delivers, and the callback is running
C3_Witness ==
    /\ thr_pc = "stopped"
    /\ listening
    /\ cb_pc = "check"
    /\ carla_images # <<>>
    /\ webp_bytes # <<>>

\* C4: once the cancellation flag is raised, the encode worker and the send
\* worker each eventually exit their loop under fair scheduling, whatever
\* Q1 and Q2 hold and whether or not the frame source keeps delivering.
C4_WorkersExit == stop_event ~> (enc_pc = "done" /\ snd_pc = "done")

\* the flag is raised while the encode worker is inside its push-retry loop
\* on a full Q2 and the send worker is holding a payload
C4_Witness ==
    /\ stop_event
    /\ enc_pc = "evict"
    /\ Len(webp_bytes) = queue_size
    /\ snd_pc = "send"
    /\ cb_pc = "get"

\* C5: a push never blocks: every invocation of the capture callback and
\* every push of a payload into Q2 needs at most two insert attempts (one
\* eviction between them), under every interleaving with the consumer.
C5_PushBounded ==
    /\ cbPuts <= 2
    /\ encPuts <= 2

\* a callback invocation and a payload push that each completed on their
\* second attempt
C5_Witness ==
    /\ cb_pc = "idle"
    /\ cbPuts = 2
    /\ enc_pc = "loop"
    /\ encPuts = 2

\* C6: the payloads handed to the datagram publisher are the encodings of a
\* strictly increasing subsequence of the frames in capture order; no frame
\* is encoded or handed over twice, nor handed over before an earlier one.
C6_OrderedNoDuplicates ==
    /\ StrictlyIncreasing(encodedLog)
    /\ \A i \in 1..Len(encodedLog) : encodedLog[i] \in 1..(nextFrame - 1)
    /\ \A i \in 1..Len(handedLog) :
          \E j \in 1..Len(encodedLog) : handedLog[i] = Encode(encodedLog[j])
    /\ \A i, j \in 1..Len(handedLog) :
          i < j => handedLog[i].webp_of < handedLog[j].webp_of

\* two payloads were handed over with a dropped frame between them
C6_Witness ==
    /\ Len(handedLog) >= 2
    /\ handedLog[2].webp_of > handedLog[1].webp_of + 1

\* ------------------------------------------- claims: fixed-rate publisher
\* C7: while the fixed-rate publisher holds no control state, every tick is a
\* no-op: no datagram is handed to the datagram publisher and no tick ends
\* in an error, however many ticks elapse.
C7_NoStateNoDatagram ==
    controller_state = <<>> =>
        /\ handed = <<>>
        /\ handedCount = 0
        /\ send_queue = <<>>
        /\ tick_result \in {"none", "noop"}

\* MaxTicks ticks have elapsed with no state held
C7_Witness ==
    /\ controller_state = <<>>
    /\ ticksDone = MaxTicks
    /\ tick_result = "noop"
    /\ handed = <<>>

\* C8: once a control state is held, every tick hands exactly one datagram to
\* the datagram publisher, which carries the serialization of the state the
\* adapter emitted last (also when it is unchanged since the previous tick),
\* and the held state never returns to "none yet".
C8_TickSendsLatest ==
    /\ [][(ticksDone' = ticksDone + 1 /\ controller_state # <<>>) =>
            /\ handedCount' = handedCount + 1
            /\ handed' =
                 <<serialize_controller_state(last_controller_state[1])>>]_vars
    /\ [][controller_state # <<>> => controller_state' # <<>>]_vars
    /\ [](ev_result \in {"emitted", "deduped"} => controller_state # <<>>)

\* two ticks in a row handed over the same state, after the state had changed
\* from the one first emitted
C8_Witness ==
    /\ handedCount >= 2
    /\ tick_result = "sent"
    /\ Len(send_queue) = 2
    /\ send_queue[1] = send_queue[2]
    /\ handed = <<send_queue[2]>>
    /\ reverse
    /\ axis_data[0] = <<17>>

\* C9: when the datagram publisher's queue is full at the publish step of a
\* tick, the condition is caught and ignored: the tick raises no error, the
\* held control state is unchanged and the looper goes on to later ticks.
C9_FullIsIgnored ==
    [][(/\ looper_pc = "checked"
        /\ ticksDone' = ticksDone + 1
        /\ Len(send_queue) >= SenderQueueSize) =>
          /\ tick_result' # "Full"
          /\ looper_pc' = "idle"
          /\ controller_state' = controller_state]_vars

\* --------------------------------------------------------- claims: adapter
\* C10: with a callable callback, the adapter invokes the downstream callback
\* for a recognised event if and only if the control state derived after the
\* event differs in some field from the state it emitted last; an emission
\* passes on exactly the derived state, and a discarded one changes nothing.
C10_Dedup ==
    [][(ev_seq' # ev_seq /\ cb_callable) =>
         LET cand == HandleCallback(axis_data', button_data', reverse,
                                    TRUE).state
         IN  /\ (ev_result' = "emitted") <=> (<<cand>> # last_controller_state)
             /\ ev_result' \in {"emitted", "deduped"}
             /\ ev_result' = "emitted" =>
                  /\ controller_state' = <<cand>>
                  /\ last_controller_state' = <<cand>>
             /\ ev_result' = "deduped" =>
                  UNCHANGED <<controller_state, last_controller_state>>]_vars

\* a raw update that changed the sample (steer 0.16 inside the deadzone, a
\* hat moved) and was discarded as a duplicate
C10_Witness ==
    /\ cb_callable
    /\ ev_result = "deduped"
    /\ axis_data[0] = <<16>>
    /\ hat_data[0] = <<0, 1>>
    /\ last_controller_state # <<>>
    /\ last_controller_state[1].steer = 0

\* C11: reverse starts false; on every raw update the derived reverse is
\* false if select-forward is pressed (also when select-reverse is pressed
\* too), else true if select-reverse is pressed, else the value derived on
\* the previous update.
C11_ReverseSticky ==
    /\ [](ev_result = "none" => ~reverse)
    /\ [][ev_seq' # ev_seq =>
            /\ button_data'[11] => ~reverse'
            /\ (~button_data'[11] /\ button_data'[12]) => reverse'
            /\ (~button_data'[11] /\ ~button_data'[12]) => reverse' = reverse
            /\ ev_result' \in {"emitted", "deduped"} =>
                 last_controller_state'[1].reverse = reverse']_vars

\* both selectors are held and forward has won after reverse had been engaged
\* and emitted
C11_Witness ==
    /\ cb_callable
    /\ button_data[11]
    /\ button_data[12]
    /\ ~reverse
    /\ ev_result = "emitted"
    /\ ~last_controller_state[1].reverse
    /\ axis_data[0] = <<17>>

\* C12: for every steer axis value x (in hundredths) with -0.16 <= x <= 0.16
\* the derived steer is exactly 0, and for every value outside that range,
\* 0.17 and -0.17 among them, it is x unchanged.
C12_SteerDeadzone ==
    dz_steer # <<>> =>
        dz_steer[1] = IF dz_x \in -16..16 THEN 0 ELSE dz_x

\* the steer derived from 0.17, the first value above the deadzone
C12_Witness ==
    /\ dz_x = 17
    /\ dz_steer = <<17>>

\* C13: deserialize_controller_state(serialize_controller_state(s)) equals s
\* in all six fields, for every control state s, and the record carries
\* exactly the six fields.
C13_RoundTrip ==
    /\ rt_wire # <<>> =>
         /\ Len(rt_wire[1]) = 6
         /\ {rt_wire[1][i][1] : i \in 1..6} =
              {"throttle", "brake", "steer", "hand_brake", "reverse", "reset"}
    /\ rt_back # <<>> => rt_back[1] = rt_state

\* a state with a negative steer, a fraction and mixed booleans read back
C13_Witness ==
    /\ rt_back # <<>>
    /\ rt_state.steer = -17
    /\ rt_state.throttle = 50
    /\ rt_state.hand_brake
    /\ ~rt_state.reset
    /\ rt_back[1].steer = -17

\* C14: under every interleaving of a push with the queue's consumer, the
\* push removes an item only from a queue that is at capacity at the moment
\* of the removal, the removed item is the oldest one, and one push removes
\* at most one item (it makes at most two insert attempts).
C14_EvictOnlyAtCapacity ==
    /\ [](cbPuts <= 2 /\ encPuts <= 2)
    /\ [][(cb_pc = "get" /\ cb_pc' = "check" /\ carla_images' # carla_images)
            => /\ Len(carla_images) = queue_size
               /\ carla_images' = Tail(carla_images)]_vars
    /\ [][(enc_pc = "evict" /\ enc_pc' = "check" /\ webp_bytes' # webp_bytes)
            => /\ Len(webp_bytes) = queue_size
               /\ webp_bytes' = Tail(webp_bytes)]_vars

\* C15: when the hand-over of a payload to the Sender finds the outgoing
\* queue full, the send worker drops that payload (it is never queued, the
\* outgoing queue is untouched) and returns to its loop; the worker ends only
\* after cancellation, and a payload handed over while the outgoing queue has
\* room is queued, whatever was dropped before.
C15_SaturationSkipsSend ==
    /\ [](snd_pc = "done" => stop_event)
    /\ [](\A i \in 1..Len(droppedLog) : \A j \in 1..Len(send_queue) :
             send_queue[j] # droppedLog[i])
    /\ [][(snd_pc = "send" /\ snd_pc' # snd_pc
             /\ Len(send_queue) >= SenderQueueSize)
            => /\ snd_pc' = "loop"
               /\ snd_webp' = <<>>
               /\ send_queue' = send_queue
               /\ droppedLog' = Append(droppedLog, snd_webp[1])]_vars
    /\ [][(snd_pc = "send" /\ snd_pc' # snd_pc
             /\ Len(send_queue) < SenderQueueSize)
            => /\ snd_pc' = "loop"
               /\ send_queue' = Append(send_queue, snd_webp[1])
               /\ droppedLog' = droppedLog]_vars

\* a payload was dropped on saturation and a later payload was queued by the
\* same, still running, worker
C15_Witness ==
    /\ ~stop_event
    /\ snd_pc \in {"loop", "get", "send"}
    /\ Len(droppedLog) = 1
    /\ \E i \in 1..Len(handedLog) : \E j \in 1..Len(handedLog) :
          /\ i < j
          /\ handedLog[i] = droppedLog[1]
          /\ \E k \in 1..Len(send_queue) : send_queue[k] = handedLog[j]

\* C16: with a callback target that is not callable, every axis, button and
\* hat event is a recognised event, handling it ends in the error raised by
\* _handle_callback, and nothing is emitted: neither the adapter's
\* last-emitted state nor the state held downstream is ever written.
C16_NotCallableRaises ==
    /\ [](~cb_callable =>
            /\ controller_state = <<>>
            /\ last_controller_state = <<>>
            /\ ev_result \in {"none", "ignored", "error"})
    /\ [][(axis_data' # axis_data \/ button_data' # button_data
             \/ hat_data' # hat_data) => ev_seq' # ev_seq]_vars
    /\ [][(~cb_callable /\ ev_seq' # ev_seq)
            => /\ ev_result' = "error"
               /\ UNCHANGED <<controller_state, last_controller_state>>]_vars

\* axis, button and hat events were handled with a non-callable target, the
\* last one ending in the error
C16_Witness ==
    /\ ~cb_callable
    /\ ev_result = "error"
    /\ axis_data[0] # <<>>
    /\ button_data[0]
    /\ hat_data[0] = <<0, 1>>
    /\ controller_state = <<>>

\* C17: with a callable callback, once a device event has been handled the
\* control state held by the publisher is the state derived from the
\* adapter's current raw sample and reverse latch, and it is the adapter's
\* last-emitted state, whether the last event was emitted or deduplicated.
C17_HeldIsCurrent ==
    (cb_callable /\ (ev_result \in {"emitted", "deduped"}
                       \/ controller_state # <<>>
                       \/ last_controller_state # <<>>))
      => /\ controller_state =
              <<HandleCallback(axis_data, button_data, reverse, TRUE).state>>
         /\ controller_state = last_controller_state

\* the last event was deduplicated while a state with steer and reverse set
\* is held
C17_Witness ==
    /\ cb_callable
    /\ ev_result = "deduped"
    /\ controller_state # <<>>
    /\ controller_state[1].steer = 17
    /\ controller_state[1].reverse
    /\ axis_data[0] = <<17>>

\* C18: once the callback has delivered a frame, with the workers running,
\* then under fair scheduling of the two workers the pipeline is cancelled,
\* or the callback is invoked with a further frame, or the payload of that
\* frame (the last one delivered) is handed to the Sender; and an eviction,
\* in either queue, removes only an item of a frame captured before the
\* frame whose push evicts it.
C18_FreshestSurvives ==
    /\ (cb_pc = "idle" /\ nextFrame > 1 /\ thr_pc = "running")
         ~> (stop_event \/ cb_pc # "idle"
               \/ \E i \in 1..Len(handedLog) :
                     handedLog[i] = Encode(nextFrame - 1))
    /\ [][(cb_pc = "get" /\ carla_images' # carla_images)
            => Head(carla_images) < cb_image[1]]_vars
    /\ [][(enc_pc = "evict" /\ webp_bytes' # webp_bytes)
            => Head(webp_bytes).webp_of < enc_webp[1].webp_of]_vars

\* the last frame was pushed by evicting an older one, and its payload has
\* been handed to the Sender by the running pipeline
C18_Witness ==
    /\ ~stop_event
    /\ thr_pc = "running"
    /\ cb_pc = "idle"
    /\ nextFrame = MaxFrames + 1
    /\ Len(pushedLog) = MaxFrames
    /\ Len(encodedLog) < MaxFrames
    /\ \E i \in 1..Len(handedLog) : handedLog[i] = Encode(MaxFrames)

\* C19: from the raising of the stop flag on, the encode worker encodes at
\* most one further frame and the send worker hands at most one further
\* payload to the Sender.
C19_OneMoreAfterStop ==
    stopMark # <<>> =>
        /\ stop_event
        /\ Len(encodedLog) <= stopMark[1].encoded + 1
        /\ Len(handedLog) <= stopMark[1].handed + 1

\* both workers have ended, each having done exactly one further step of its
\* kind after the flag was raised
C19_Witness ==
    /\ stopMark # <<>>
    /\ enc_pc = "done"
    /\ snd_pc = "done"
    /\ Len(encodedLog) = stopMark[1].encoded + 1
    /\ Len(handedLog) = stopMark[1].handed + 1

\* C20: a callback invocation that begins after the stop flag was raised
\* goes from its entry straight to its return: no frame delivered after the
\* flag is ever inserted, and the steps of such an invocation leave the image
\* queue as it is.
C20_LateCallbackNoOp ==
    /\ [](stopMark # <<>> =>
            /\ \A i \in 1..Len(pushedLog) : pushedLog[i] < stopMark[1].frame
            /\ (cb_image # <<>> /\ cb_image[1] >= stopMark[1].frame)
                 => cb_pc = "check")
    /\ [][(stop_event /\ cb_pc = "idle" /\ cb_pc' # cb_pc)
            => /\ cb_pc' = "check"
               /\ carla_images' = carla_images]_vars
    /\ [][(stopMark # <<>> /\ cb_image # <<>>
             /\ cb_image[1] >= stopMark[1].frame /\ cb_pc' # cb_pc)
            => /\ cb_pc' = "idle"
               /\ cb_image' = <<>>
               /\ carla_images' = carla_images
               /\ pushedLog' = pushedLog]_vars

\* a frame was delivered after the flag was raised, to a full image queue,
\* and the invocation has returned
C20_Witness ==
    /\ stopMark # <<>>
    /\ nextFrame > stopMark[1].frame
    /\ cb_pc = "idle"
    /\ Len(carla_images) = queue_size
    /\ queue_size = MaxN

=============================================================================
